---- MODULE Spec2Model ----
(***************************************************************************)
(* Model of tensorflow/python/compiler/tensorrt/model_tests/               *)
(* model_handler.py: random input generation, the memoized meta graph      *)
(* loader, ModelHandlerV1.run and the TensorRT conversion handlers.        *)
(*                                                                         *)
(* Python values are encoded as follows.  Optional[x] is a sequence of     *)
(* length 0 (None) or 1.  A raised exception and a returned value are      *)
(* records with a "kind" field.  A dict is a function.                     *)
(***************************************************************************)
EXTENDS Integers, Sequences, FiniteSets, TLC

VARIABLES
    tensor_shape,   \* argument of _get_concrete_tensor_shape
    batch_size,     \* argument of _get_concrete_tensor_shape (Optional[int])
    shape_result,   \* outcome of the last _get_concrete_tensor_shape call
    meta,           \* signature of the saved model: input shapes, output count
    self,           \* the handler object (kind "none" until constructed)
    pc,             \* position inside ModelHandlerV1.run
    run,            \* locals of the run call in progress
    sessOpen,       \* the session of line 209 is open
    callLog,        \* sess.run calls made by the current or last operation
    genSessions,    \* sessions _generate_random_tensor_v1 opened in that operation
    ret,            \* what the last operation returned or raised
    saveLog,        \* history of save calls on the handler
    nextTmp,        \* number of directories tempfile.mkdtemp has handed out
    lru,            \* lru_cache of load_meta_graph, least recently used first
    nextFresh,      \* next storage location never loaded before
    loaded,         \* keys of earlier successful load_meta_graph calls
    lastUse,        \* value of nextFresh when the tracked key was last used, if ever
    lastLoad        \* the last load_meta_graph call

shapeVars == <<tensor_shape, batch_size, shape_result>>
handlerVars == <<meta, self, pc, run, sessOpen, callLog, genSessions, ret, saveLog, nextTmp>>
cacheVars == <<lru, nextFresh, loaded, lastUse, lastLoad>>
vars == <<tensor_shape, batch_size, shape_result, meta, self, pc, run, sessOpen,
          callLog, genSessions, ret, saveLog, nextTmp, lru, nextFresh, loaded,
          lastUse, lastLoad>>

None == <<>>
Some(x) == <<x>>

(***************************************************************************)
(* Bounds of the model.                                                    *)
(***************************************************************************)
MaxRank == 3        \* longest declared shape drawn for shape resolution
MaxDim == 2         \* dimensions are drawn from -MaxDim..MaxDim
MaxBatch == 2       \* batch sizes are drawn from -MaxBatch..MaxBatch and None
MaxInputs == 2      \* input tensors of a model signature
MaxOutputs == 1     \* output tensors of a model signature
MaxWarmup == 1      \* warmup_iterations drawn from 0..MaxWarmup
MaxBench == 2       \* benchmark_iterations drawn from 0..MaxBench
MaxSaves == 2       \* save calls (explicit or from run) on one handler
MaxFresh == 130     \* distinct storage locations loaded besides the tracked one

(***************************************************************************)
(* _get_concrete_tensor_shape (lines 47-63)                                *)
(***************************************************************************)
ValueError(msg) == [kind |-> "raise", type |-> "ValueError", msg |-> msg]
Returned(v) == [kind |-> "return", value |-> v]

\* any(filter(lambda x: x < 0, shape)): some kept element is truthy (non-zero).
AnyNegative(shape) ==
    LET kept == SelectSeq(shape, LAMBDA x: x < 0)
    IN \E i \in 1..Len(kept): kept[i] # 0

NoBatchCheck_get_concrete_tensor_shape(ts, bs) ==
    IF ts.unknown_rank
    THEN ValueError("Cannot generates random tensors for unknown rank!")
    ELSE IF ts.dim = <<>>
    THEN ValueError("The tensor cannot have a rank of 0!")
    ELSE LET shape == IF ts.dim[1] < 0 /\ bs # None
                      THEN [ts.dim EXCEPT ![1] = bs[1]] ELSE ts.dim
         IN IF AnyNegative(shape)
            THEN ValueError("Cannot have dynamic dimensions except for batch size!")
            ELSE Returned(shape)

get_concrete_tensor_shape(ts, bs) ==
    IF ts.unknown_rank
    THEN ValueError("Cannot generates random tensors for unknown rank!")
    ELSE IF ts.dim = <<>>
    THEN ValueError("The tensor cannot have a rank of 0!")
    ELSE IF ts.dim[1] < 0 /\ (bs = None \/ bs[1] <= 0)
    THEN ValueError("Must provide a valid batch size as the tensor has a dynamic batch size!")
    ELSE LET shape == IF ts.dim[1] < 0 THEN [ts.dim EXCEPT ![1] = bs[1]] ELSE ts.dim
         IN IF AnyNegative(shape)
            THEN ValueError("Cannot have dynamic dimensions except for batch size!")
            ELSE Returned(shape)

Dims == (0 - MaxDim)..MaxDim
DimSeqs == UNION {[1..n -> Dims] : n \in 0..MaxRank}
TensorShapes == [unknown_rank : BOOLEAN, dim : DimSeqs]
BatchSizes == {None} \cup {Some(b) : b \in (0 - MaxBatch)..MaxBatch}
NotCalled == [kind |-> "none"]

InitShape ==
    /\ tensor_shape \in TensorShapes
    /\ batch_size \in BatchSizes
    /\ shape_result = NotCalled

ResolveShape ==
    /\ shape_result = NotCalled
    /\ shape_result' = get_concrete_tensor_shape(tensor_shape, batch_size)
    /\ UNCHANGED <<tensor_shape, batch_size>>


(***************************************************************************)
(* _generate_random_tensor_v1 and generate_random_inputs                   *)
(* (lines 66-73, 192-198)                                                  *)
(***************************************************************************)
\* Index of the first input tensor whose shape cannot be resolved, 0 if none.
FirstUnresolved(infos, bs) ==
    LET bad == {i \in 1..Len(infos) : get_concrete_tensor_shape(infos[i], bs).kind = "raise"}
    IN IF bad = {} THEN 0 ELSE CHOOSE i \in bad : \A j \in bad : i <= j

\* The dict comprehension evaluates the tensors in order and stops at the
\* first exception; every tensor generated before it opened one session.
BatchOne_generate_random_inputs(infos, bs) ==
    LET b == IF bs = None THEN Some(1) ELSE bs
        k == FirstUnresolved(infos, b)
    IN IF k # 0
       THEN [out |-> get_concrete_tensor_shape(infos[k], b), sessions |-> k - 1]
       ELSE [out |-> Returned([i \in 1..Len(infos) |->
                                  get_concrete_tensor_shape(infos[i], b).value]),
             sessions |-> Len(infos)]

generate_random_inputs(infos, bs) ==
    LET k == FirstUnresolved(infos, bs)
    IN IF k # 0
       THEN [out |-> get_concrete_tensor_shape(infos[k], bs), sessions |-> k - 1]
       ELSE [out |-> Returned([i \in 1..Len(infos) |->
                                  get_concrete_tensor_shape(infos[i], bs).value]),
             sessions |-> Len(infos)]

(***************************************************************************)
(* _ModelHandlerBase / _TrtModelHandlerBase objects (lines 110-128,        *)
(* 229-264)                                                                *)
(***************************************************************************)
DEFAULT_SAVED_MODEL_TAGS == <<"serve">>
DEFAULT_SAVED_MODEL_SIGNATURE_KEY == "serving_default"
ModelDir == <<"model">>
TmpDir(n) == <<"tmp", n>>
OutDir == <<"out">>

NoHandler == [kind |-> "none"]

\* State of the object after _ModelHandlerBase.__init__; attrs lists the
\* instance attributes assigned so far.
BaseHandler(kind, dir) ==
    [kind |-> kind,
     saved_model_dir |-> dir,
     saved_model_tags |-> DEFAULT_SAVED_MODEL_TAGS,
     saved_model_signature_key |-> DEFAULT_SAVED_MODEL_SIGNATURE_KEY,
     attrs |-> {"_saved_model_dir", "_saved_model_tags", "_saved_model_signature_key"},
     trt_convert_params |-> None,
     conversion_is_saved |-> FALSE,
     converter |-> None]

BaseStr(s) ==
    <<"Directory: ", s.saved_model_dir, "; Tags: ", s.saved_model_tags,
      "; Signature: ", s.saved_model_signature_key>>

AttributeError(name) == [kind |-> "raise", type |-> "AttributeError", msg |-> name]

\* str(self): _TrtModelHandlerBase.__str__ reads self._trt_convert_params.
Str(s) ==
    IF s.kind = "trt"
    THEN IF "_trt_convert_params" \in s.attrs
         THEN Returned(BaseStr(s) \o <<", TrtConversionParams: ", s.trt_convert_params[1]>>)
         ELSE AttributeError("_trt_convert_params")
    ELSE Returned(BaseStr(s))

(***************************************************************************)
(* ModelHandlerV1.run (lines 200-223)                                      *)
(***************************************************************************)
BackendErrors == {"InvalidArgumentError", "ResourceExhaustedError"}
Givens == {"none", "empty", "some"}
ExplicitInputs == [i \in {1} |-> "explicit"]

Result(op, out) == [op |-> op, out |-> out]
NoResult == Result("none", NotCalled)

\* inputs = inputs or self.generate_random_inputs()
BatchOneRunInputs(given) ==
    IF given = "some"
    THEN [out |-> Returned(ExplicitInputs), sessions |-> 0]
    ELSE BatchOne_generate_random_inputs(meta.inputs, None)

RunInputs(given) ==
    IF given = "some"
    THEN [out |-> Returned(ExplicitInputs), sessions |-> 0]
    ELSE generate_random_inputs(meta.inputs, None)

LoopPc(i, W, j, N) ==
    IF i < W THEN "warmup" ELSE IF j < N THEN "bench" ELSE "finish"

IdleRun == [given |-> "none", inputs |-> None, W |-> 0, N |-> 0, i |-> 0,
            latency |-> <<>>, outputs |-> None, gpu |-> FALSE, viaTrt |-> FALSE]

\* Lines 205-210: resolve the inputs, then open the session.
\* `run` keeps the arguments and locals of the call after it has ended.
StartRun(given, W, N, gpu, viaTrt) ==
    LET gen == RunInputs(given)
    IN /\ callLog' = <<>>
       /\ genSessions' = gen.sessions
       /\ IF gen.out.kind = "raise"
          THEN /\ ret' = Result("run", gen.out)
               /\ pc' = "idle"
               /\ sessOpen' = FALSE
               /\ run' = [given |-> given, inputs |-> None, W |-> W, N |-> N,
                          i |-> 0, latency |-> <<>>, outputs |-> None,
                          gpu |-> gpu, viaTrt |-> viaTrt]
          ELSE /\ ret' = NoResult
               /\ pc' = LoopPc(0, W, 0, N)
               /\ sessOpen' = TRUE
               /\ run' = [given |-> given, inputs |-> Some(gen.out.value), W |-> W,
                          N |-> N, i |-> 0, latency |-> <<>>, outputs |-> None,
                          gpu |-> gpu, viaTrt |-> viaTrt]

\* exc is None when the call returned, else the exception the backend raised.
Call(timed, exc) ==
    [timed |-> timed, exc |-> exc, dir |-> self.saved_model_dir, gpu |-> run.gpu]

\* except Exception as exc: raise RuntimeError(...) from exc   (lines 219-221)
OnlyInvalidArgument_ExceptClause(exc) ==
    IF exc = "InvalidArgumentError"
    THEN LET info == Str(self)
         IN IF info.kind = "raise" THEN info
            ELSE [kind |-> "raise", type |-> "RuntimeError",
                  msg |-> <<"Failed to run model inference!Model information: ">>
                          \o info.value,
                  cause |-> exc]
    ELSE [kind |-> "raise", type |-> exc, msg |-> <<>>]

ExceptClause(exc) ==
    LET info == Str(self)
    IN IF info.kind = "raise" THEN info
       ELSE [kind |-> "raise", type |-> "RuntimeError",
             msg |-> <<"Failed to run model inference!Model information: ">>
                     \o info.value,
             cause |-> exc]

\* A failing sess.run leaves the try block, the with block closes the session.
BackendFails(timed, exc) ==
    /\ callLog' = Append(callLog, Call(timed, Some(exc)))
    /\ ret' = Result("run", ExceptClause(exc))
    /\ pc' = "idle"
    /\ sessOpen' = FALSE
    /\ UNCHANGED run

\* One iteration of the loop of lines 212-213.
SessRunWarmup ==
    /\ pc = "warmup"
    /\ \/ /\ callLog' = Append(callLog, Call(FALSE, None))
          /\ run' = [run EXCEPT !.i = @ + 1]
          /\ pc' = LoopPc(run.i + 1, run.W, 0, run.N)
          /\ UNCHANGED <<ret, sessOpen>>
       \/ \E exc \in BackendErrors : BackendFails(FALSE, exc)
    /\ UNCHANGED <<meta, self, genSessions, saveLog, nextTmp>>

\* Value the backend returns for output tensor o at the c-th call of this run.
OutputValue(c, o) == <<"value", c, o>>

\* One iteration of the loop of lines 215-218; the latency entry is tagged
\* with the index of the call it timed.
SessRunBench ==
    /\ pc = "bench"
    /\ \/ LET c == Len(callLog) + 1
          IN /\ callLog' = Append(callLog, Call(TRUE, None))
             /\ run' = [run EXCEPT !.outputs = Some([o \in 1..meta.nout |-> OutputValue(c, o)]),
                                   !.latency = Append(@, c)]
             /\ pc' = LoopPc(run.W, run.W, Len(run.latency) + 1, run.N)
             /\ UNCHANGED <<ret, sessOpen>>
       \/ \E exc \in BackendErrors : BackendFails(TRUE, exc)
    /\ UNCHANGED <<meta, self, genSessions, saveLog, nextTmp>>

Truthy(dict) == DOMAIN dict # {}

\* TestResult(latency=latency, outputs=outputs if inputs else None)  (line 223),
\* then attr.evolve(..., trt_convert_params=...) in TrtModelHandlerV1.run.
GivenInputs_TestResult(r, s) ==
    [kind |-> "return", type |-> "TestResult",
     latency |-> r.latency,
     outputs |-> IF r.given = "some" THEN Some(r.outputs[1]) ELSE None,
     trt_convert_params |-> IF r.viaTrt THEN s.trt_convert_params ELSE None]

TestResult(r, s) ==
    [kind |-> "return", type |-> "TestResult",
     latency |-> r.latency,
     outputs |-> IF Truthy(r.inputs[1]) THEN Some(r.outputs[1]) ELSE None,
     trt_convert_params |-> IF r.viaTrt THEN s.trt_convert_params ELSE None]

\* Lines 222-223: `outputs` is unbound when the benchmark loop never ran.
RunFinish ==
    /\ pc = "finish"
    /\ ret' = Result("run",
                IF run.outputs = None
                THEN [kind |-> "raise", type |-> "UnboundLocalError", msg |-> "outputs"]
                ELSE TestResult(run, self))
    /\ pc' = "idle"
    /\ sessOpen' = FALSE
    /\ UNCHANGED <<meta, self, run, callLog, genSessions, saveLog, nextTmp>>

Warmups == 0..MaxWarmup
Benches == 0..MaxBench

\* run is called with allow_to_use_gpu left at its default, False.
RunV1 ==
    /\ pc = "idle"
    /\ self.kind = "v1"
    /\ \E given \in Givens, W \in Warmups, N \in Benches :
          StartRun(given, W, N, FALSE, FALSE)
    /\ UNCHANGED <<meta, self, saveLog, nextTmp>>

GenerateRandomInputs ==
    /\ pc = "idle"
    /\ self.kind # "none"
    /\ \E bs \in BatchSizes :
          LET gen == generate_random_inputs(meta.inputs, bs)
          IN /\ ret' = Result("generate", gen.out)
             /\ genSessions' = gen.sessions
    /\ callLog' = <<>>
    /\ UNCHANGED <<meta, self, pc, run, sessOpen, saveLog, nextTmp>>

\* Declared shapes of the input tensors of the models under test.
UnknownRank == [unknown_rank |-> TRUE, dim |-> <<>>]
Known(dim) == [unknown_rank |-> FALSE, dim |-> dim]
RunShapes == {UnknownRank, Known(<<>>), Known(<<2, 2>>), Known(<<-1, 2>>)}
RunMetas == [inputs : UNION {[1..n -> RunShapes] : n \in 0..MaxInputs},
             nout : 0..MaxOutputs]

InitCache ==
    /\ lru = <<>>
    /\ nextFresh = 1
    /\ loaded = {}
    /\ lastUse = None
    /\ lastLoad = NotCalled

InitRun ==
    /\ meta \in RunMetas
    /\ self = BaseHandler("v1", ModelDir)
    /\ pc = "idle"
    /\ run = IdleRun
    /\ sessOpen = FALSE
    /\ callLog = <<>>
    /\ genSessions = 0
    /\ ret = NoResult
    /\ saveLog = <<>>
    /\ nextTmp = 0
    /\ tensor_shape = UnknownRank /\ batch_size = None /\ shape_result = NotCalled
    /\ InitCache

NextRun ==
    \/ RunV1 /\ UNCHANGED shapeVars /\ UNCHANGED cacheVars
    \/ SessRunWarmup /\ UNCHANGED shapeVars /\ UNCHANGED cacheVars
    \/ SessRunBench /\ UNCHANGED shapeVars /\ UNCHANGED cacheVars
    \/ RunFinish /\ UNCHANGED shapeVars /\ UNCHANGED cacheVars
    \/ GenerateRandomInputs /\ UNCHANGED shapeVars /\ UNCHANGED cacheVars

SpecRun == InitRun /\ [][NextRun]_vars

(***************************************************************************)
(* Properties of ModelHandlerV1.run                                        *)
(***************************************************************************)
RunEnded == pc = "idle" /\ ret.op = "run"
AllCallsOk == \A k \in 1..Len(callLog) : callLog[k].exc = None
IsTestResult == ret.out.kind = "return" /\ ret.out.type = "TestResult"

\* Declared shapes as the claims speak of them.
Resolvable(ts) ==
    /\ ~ts.unknown_rank
    /\ Len(ts.dim) >= 1
    /\ \A i \in 1..Len(ts.dim) : ts.dim[i] >= 0
StaticShape(ts) == ~ts.unknown_rank /\ \A i \in 1..Len(ts.dim) : ts.dim[i] >= 0
DynamicLeading(ts) == ~ts.unknown_rank /\ Len(ts.dim) >= 1 /\ ts.dim[1] < 0

BatchSizeMsg == "Must provide a valid batch size as the tensor has a dynamic batch size!"

\* C2 (as claimed): a run with warmup_iterations = 0 and benchmark_iterations = N
\* whose inputs were resolved and whose backend calls all succeeded returns a
\* TestResult whose latency has exactly N entries, for every N >= 0.
C2_LatencyHasNEntries ==
    (RunEnded /\ run.W = 0 /\ run.inputs # None /\ AllCallsOk)
        => (IsTestResult /\ Len(ret.out.latency) = run.N)

\* The W + N calls of a completed run: W untimed, then N timed, the timed
\* ones being those the latency entries were taken from.
CallsInOrder ==
    /\ Len(callLog) = run.W + run.N
    /\ \A k \in 1..Len(callLog) : callLog[k].timed = (k > run.W)
    /\ ret.out.latency = [j \in 1..run.N |-> run.W + j]

OutputsOfLastCall ==
    /\ ret.out.outputs # None
    /\ DOMAIN ret.out.outputs[1] # {}
    /\ DOMAIN ret.out.outputs[1] = 1..meta.nout
    /\ \A o \in 1..meta.nout : ret.out.outputs[1][o] = OutputValue(run.W + run.N, o)

\* C3 (as claimed): with inputs omitted, at least one statically shaped input
\* tensor, W >= 0 and N >= 1, the run makes W untimed then N timed backend
\* calls and returns non-empty outputs holding the values of the last call.
\* The claim is read in its favour: the static tensor has rank >= 1 and the
\* model has an output tensor.
C3_Original ==
    (/\ RunEnded
     /\ run.given = "none"
     /\ \E i \in 1..Len(meta.inputs) : StaticShape(meta.inputs[i]) /\ Resolvable(meta.inputs[i])
     /\ meta.nout >= 1
     /\ run.N >= 1
     /\ AllCallsOk)
        => (IsTestResult /\ CallsInOrder /\ OutputsOfLastCall)

\* C3 (amended): the same, for a model with at least one input tensor, every
\* input tensor of known rank >= 1 without negative dimension, and at least
\* one output tensor.
C3_OutputsOfLastCall ==
    (/\ RunEnded
     /\ run.given # "some"
     /\ Len(meta.inputs) >= 1
     /\ \A i \in 1..Len(meta.inputs) : Resolvable(meta.inputs[i])
     /\ meta.nout >= 1
     /\ run.N >= 1
     /\ AllCallsOk)
        => (IsTestResult /\ CallsInOrder /\ OutputsOfLastCall)

C3_Witness ==
    /\ RunEnded /\ run.given = "none" /\ IsTestResult
    /\ Len(meta.inputs) >= 1 /\ meta.nout >= 1
    /\ run.W = 1 /\ run.N = 2
    /\ ret.out.outputs = Some([o \in 1..meta.nout |-> OutputValue(3, o)])

\* C4: a failed backend call is the last call of its run; the run has ended
\* without a TestResult, its session is closed, and it raised the
\* RuntimeError "Failed to run model inference!" carrying str(self), with the
\* backend's exception as cause, whatever that exception is.
C4_FailureAbortsRun ==
    \A k \in 1..Len(callLog) :
        callLog[k].exc # None =>
            /\ k = Len(callLog)
            /\ pc = "idle"
            /\ ~sessOpen
            /\ ret.op = "run"
            /\ ret.out.kind = "raise"
            /\ ret.out.type = "RuntimeError"
            /\ ret.out.msg = <<"Failed to run model inference!Model information: ">>
                             \o BaseStr(self)
            /\ Some(ret.out.cause) = callLog[k].exc

C4_Witness ==
    /\ Len(callLog) = 3
    /\ callLog[1].exc = None /\ ~callLog[1].timed
    /\ callLog[2].exc = None /\ callLog[2].timed
    /\ callLog[3].exc = Some("ResourceExhaustedError")
    /\ ret.out.kind = "raise"

NeverEnteredSession == run.inputs = None /\ callLog = <<>> /\ ~sessOpen

\* C10 (as claimed): a run with inputs omitted or empty on a model with an
\* input tensor of negative leading dimension fails with the batch size
\* error, before the run's session is opened or any backend call is made,
\* and not wrapped as the inference failure.
C10_Original ==
    (/\ RunEnded
     /\ run.given # "some"
     /\ \E i \in 1..Len(meta.inputs) : DynamicLeading(meta.inputs[i]))
        => (/\ ret.out.kind = "raise"
            /\ ret.out.type = "ValueError"
            /\ ret.out.msg = BatchSizeMsg
            /\ NeverEnteredSession)

\* C10 (amended): such a run fails with the ValueError of the first input
\* tensor whose shape cannot be resolved: the batch size error when every
\* tensor before the first one of negative leading dimension is of known
\* rank >= 1 without negative dimension, else the error of that earlier
\* tensor; one generator session was opened per tensor before it, the run's
\* own session never, and no backend call was made.
C10_FailsBeforeSession ==
    (/\ RunEnded
     /\ run.given # "some"
     /\ \E i \in 1..Len(meta.inputs) : DynamicLeading(meta.inputs[i]))
        => LET d == CHOOSE i \in 1..Len(meta.inputs) :
                        /\ DynamicLeading(meta.inputs[i])
                        /\ \A j \in 1..(i - 1) : ~DynamicLeading(meta.inputs[j])
               early == {j \in 1..(d - 1) : ~Resolvable(meta.inputs[j])}
           IN /\ ret.out.kind = "raise"
              /\ ret.out.type = "ValueError"
              /\ IF early = {}
                 THEN ret.out.msg = BatchSizeMsg /\ genSessions = d - 1
                 ELSE ret.out.msg # BatchSizeMsg
                      /\ \E j \in early : genSessions = j - 1
              /\ NeverEnteredSession

C10_Witness ==
    /\ RunEnded /\ run.given = "none"
    /\ Len(meta.inputs) = 2
    /\ Resolvable(meta.inputs[1]) /\ DynamicLeading(meta.inputs[2])
    /\ ret.out.kind = "raise" /\ ret.out.msg = BatchSizeMsg
    /\ genSessions = 1

(***************************************************************************)
(* _TrtModelHandlerBase and TrtModelHandlerV1 (lines 226-315)              *)
(***************************************************************************)
TrtParams == {"FP32", "FP16"}
\* Node ops of the graphs converter.convert() may return.
Graphs == {<<>>, <<"Placeholder", "Identity">>, <<"Placeholder", "TRTEngineOp", "Identity">>}
Ops(graph_def) == {graph_def[i] : i \in 1..Len(graph_def)}

\* _check_contains_trt_engine (lines 256-259); str(self) is evaluated to
\* build the message.
NeverRaises_check_contains_trt_engine(s, graph_def) == Returned(None)

check_contains_trt_engine(s, graph_def) ==
    IF "TRTEngineOp" \notin Ops(graph_def)
    THEN LET info == Str(s)
         IN IF info.kind = "raise" THEN info
            ELSE [kind |-> "raise", type |-> "RuntimeError",
                  msg |-> <<"Failed to convert to TensorRT! Model Information: ">>
                          \o info.value]
    ELSE Returned(None)

InitResult(out, graph) == [op |-> "init", out |-> out, graph |-> graph]

\* _TrtModelHandlerBase.__init__ (lines 229-246): the attributes of lines
\* 245-246 are assigned only after _check_conversion has returned.
ConstructTrt ==
    /\ pc = "idle"
    /\ self = NoHandler
    /\ \E params \in TrtParams, graph \in Graphs :
          LET s0 == [BaseHandler("trt", ModelDir) EXCEPT
                        !.converter = Some(graph),
                        !.attrs = @ \cup {"_converter"}]
              chk == check_contains_trt_engine(s0, graph)
          IN /\ ret' = InitResult(chk, graph)
             /\ self' = IF chk.kind = "raise" THEN self
                        ELSE [s0 EXCEPT
                                !.trt_convert_params = Some(params),
                                !.conversion_is_saved = FALSE,
                                !.attrs = @ \cup {"_trt_convert_params",
                                                  "_conversion_is_saved"}]
    /\ UNCHANGED <<meta, pc, run, sessOpen, callLog, genSessions, saveLog, nextTmp>>

\* save (lines 270-279) on handler s; persistOk tells whether converter.save
\* returns, tmp is the directory tempfile.mkdtemp would hand out.  `persist`
\* is the directory converter.save was called with, None if it was not called.
NeverMarksSaved_save(s, output_saved_model_dir, overwrite, persistOk, tmp) ==
    IF s.conversion_is_saved /\ ~overwrite
    THEN [self |-> s, persist |-> None, mkdtemp |-> FALSE, out |-> Returned(None)]
    ELSE LET dir == IF output_saved_model_dir # None
                    THEN output_saved_model_dir[1] ELSE tmp
         IN IF persistOk
            THEN [self |-> [s EXCEPT !.saved_model_dir = dir],
                  persist |-> Some(dir),
                  mkdtemp |-> output_saved_model_dir = None,
                  out |-> Returned(None)]
            ELSE [self |-> s,
                  persist |-> Some(dir),
                  mkdtemp |-> output_saved_model_dir = None,
                  out |-> [kind |-> "raise", type |-> "ConverterSaveError", msg |-> dir]]

save(s, output_saved_model_dir, overwrite, persistOk, tmp) ==
    IF s.conversion_is_saved /\ ~overwrite
    THEN [self |-> s, persist |-> None, mkdtemp |-> FALSE, out |-> Returned(None)]
    ELSE LET dir == IF output_saved_model_dir # None
                    THEN output_saved_model_dir[1] ELSE tmp
         IN IF persistOk
            THEN [self |-> [s EXCEPT !.saved_model_dir = dir,
                                     !.conversion_is_saved = TRUE],
                  persist |-> Some(dir),
                  mkdtemp |-> output_saved_model_dir = None,
                  out |-> Returned(None)]
            ELSE [self |-> s,
                  persist |-> Some(dir),
                  mkdtemp |-> output_saved_model_dir = None,
                  out |-> [kind |-> "raise", type |-> "ConverterSaveError", msg |-> dir]]

SaveEntry(explicit, overwrite, sv) ==
    [explicit |-> explicit, overwrite |-> overwrite, persist |-> sv.persist,
     ok |-> sv.out.kind = "return",
     dirBefore |-> self.saved_model_dir, dirAfter |-> sv.self.saved_model_dir,
     savedAfter |-> sv.self.conversion_is_saved]

Save ==
    /\ pc = "idle"
    /\ self.kind = "trt"
    /\ Len(saveLog) < MaxSaves
    /\ \E dirArg \in {None, Some(OutDir)}, overwrite \in BOOLEAN, persistOk \in BOOLEAN :
          LET sv == save(self, dirArg, overwrite, persistOk, TmpDir(nextTmp))
          IN /\ self' = sv.self
             /\ ret' = Result("save", sv.out)
             /\ saveLog' = Append(saveLog, SaveEntry(TRUE, overwrite, sv))
             /\ nextTmp' = IF sv.mkdtemp THEN nextTmp + 1 ELSE nextTmp
    /\ callLog' = <<>>
    /\ genSessions' = 0
    /\ UNCHANGED <<meta, pc, run, sessOpen>>

\* self.save(overwrite=False) of TrtModelHandlerV1.run (line 307)
Overwriting_TrtRunSave(s, persistOk, tmp) == save(s, None, TRUE, persistOk, tmp)

TrtRunSave(s, persistOk, tmp) == save(s, None, FALSE, persistOk, tmp)

\* TrtModelHandlerV1.run (lines 303-315) up to the first sess.run: the save,
\* then ModelHandlerV1.run with allow_to_use_gpu=True.
RunTrt ==
    /\ pc = "idle"
    /\ self.kind = "trt"
    /\ Len(saveLog) < MaxSaves
    /\ \E given \in Givens, W \in Warmups, N \in Benches, persistOk \in BOOLEAN :
          LET sv == TrtRunSave(self, persistOk, TmpDir(nextTmp))
          IN /\ self' = sv.self
             /\ saveLog' = Append(saveLog, SaveEntry(FALSE, FALSE, sv))
             /\ nextTmp' = IF sv.mkdtemp THEN nextTmp + 1 ELSE nextTmp
             /\ IF sv.out.kind = "raise"
                THEN /\ ret' = Result("run", sv.out)
                     /\ callLog' = <<>>
                     /\ genSessions' = 0
                     /\ UNCHANGED <<pc, run, sessOpen>>
                ELSE StartRun(given, W, N, TRUE, TRUE)
    /\ UNCHANGED meta

TrtMetas == {[inputs |-> <<Known(<<2, 2>>)>>, nout |-> 1],
             [inputs |-> <<Known(<<-1, 2>>)>>, nout |-> 1]}

InitTrt ==
    /\ meta \in TrtMetas
    /\ self = NoHandler
    /\ pc = "idle"
    /\ run = IdleRun
    /\ sessOpen = FALSE
    /\ callLog = <<>>
    /\ genSessions = 0
    /\ ret = NoResult
    /\ saveLog = <<>>
    /\ nextTmp = 0
    /\ tensor_shape = UnknownRank /\ batch_size = None /\ shape_result = NotCalled
    /\ InitCache

NextTrt ==
    \/ ConstructTrt /\ UNCHANGED shapeVars /\ UNCHANGED cacheVars
    \/ Save /\ UNCHANGED shapeVars /\ UNCHANGED cacheVars
    \/ RunTrt /\ UNCHANGED shapeVars /\ UNCHANGED cacheVars
    \/ SessRunWarmup /\ UNCHANGED shapeVars /\ UNCHANGED cacheVars
    \/ SessRunBench /\ UNCHANGED shapeVars /\ UNCHANGED cacheVars
    \/ RunFinish /\ UNCHANGED shapeVars /\ UNCHANGED cacheVars

SpecTrt == InitTrt /\ [][NextTrt]_vars

\* C5: a handler exists only if the converted graph holds a TRTEngineOp
\* node; a construction on a graph without one raises and leaves no handler,
\* so no save (hence no converter.save) and no run ever happens on it.
C5_NoHandlerWithoutEngine ==
    /\ self.kind = "trt" => "TRTEngineOp" \in Ops(self.converter[1])
    /\ (saveLog # <<>> \/ callLog # <<>> \/ pc # "idle") => self.kind = "trt"
    /\ (ret.op = "init" /\ "TRTEngineOp" \notin Ops(ret.graph))
          => (ret.out.kind = "raise" /\ self = NoHandler /\ saveLog = <<>>)

C5_Witness ==
    /\ ret.op = "init"
    /\ "TRTEngineOp" \notin Ops(ret.graph)
    /\ ret.out.kind = "raise"
    /\ self = NoHandler

\* C9 (as claimed): the error raised by a construction on a graph without
\* TRTEngineOp is the RuntimeError "Failed to convert to TensorRT!" carrying
\* the handler's diagnostics string.
C9_ConversionFailureError ==
    (ret.op = "init" /\ "TRTEngineOp" \notin Ops(ret.graph))
        => (/\ ret.out.kind = "raise"
            /\ ret.out.type = "RuntimeError"
            /\ ret.out.msg[1] = "Failed to convert to TensorRT! Model Information: ")

Persisted(e) == e.persist # None /\ e.ok

\* C6: a save(overwrite=False) issued after a save that persisted the model
\* does not call converter.save, leaves the handler's directory as it was
\* (whatever directory is passed) and leaves the handler marked as saved; two
\* save(overwrite=False) calls on a fresh handler, the first one persisting,
\* call converter.save once.
C6_SaveIsNoOp ==
    /\ \A i, j \in 1..Len(saveLog) :
          (i < j /\ Persisted(saveLog[i]) /\ ~saveLog[j].overwrite)
              => (/\ saveLog[j].persist = None
                  /\ saveLog[j].ok
                  /\ saveLog[j].dirAfter = saveLog[j].dirBefore
                  /\ saveLog[j].savedAfter)
    /\ (/\ Len(saveLog) >= 2
        /\ ~saveLog[1].overwrite /\ ~saveLog[2].overwrite
        /\ Persisted(saveLog[1]))
          => Cardinality({k \in 1..2 : saveLog[k].persist # None}) = 1

C6_Witness ==
    /\ Len(saveLog) = 2
    /\ saveLog[1].explicit /\ ~saveLog[1].overwrite /\ Persisted(saveLog[1])
    /\ saveLog[2].explicit /\ ~saveLog[2].overwrite
    /\ saveLog[1].dirAfter # OutDir
    /\ ret = Result("save", Returned(None))
    /\ self.saved_model_dir = saveLog[1].dirAfter

\* C7: while no save has been called explicitly, the runs have persisted the
\* model at most once, and exactly once before any inference call; every
\* inference call runs the model of the persisted directory, which is the
\* handler's directory, with the GPU allowed; every TestResult carries the
\* handler's conversion parameters.
C7_RunPersistsOnce ==
    (\A k \in 1..Len(saveLog) : ~saveLog[k].explicit) =>
        LET done == {k \in 1..Len(saveLog) : Persisted(saveLog[k])}
        IN /\ Cardinality(done) <= 1
           /\ \A c \in 1..Len(callLog) :
                 /\ Cardinality(done) = 1
                 /\ \A k \in done : callLog[c].dir = saveLog[k].persist[1]
                 /\ callLog[c].dir = self.saved_model_dir
                 /\ callLog[c].gpu
           /\ (ret.op = "run" /\ ret.out.kind = "return")
                 => (/\ ret.out.trt_convert_params # None
                     /\ ret.out.trt_convert_params = self.trt_convert_params)

C7_Witness ==
    /\ Len(saveLog) = 2
    /\ \A k \in 1..2 : ~saveLog[k].explicit
    /\ Persisted(saveLog[1]) /\ saveLog[2].persist = None
    /\ Len(callLog) = 2
    /\ ret.op = "run" /\ ret.out.kind = "return"
    /\ ret.out.trt_convert_params = Some("FP16")

(***************************************************************************)
(* load_meta_graph under functools.lru_cache() (lines 76-96)               *)
(***************************************************************************)
LruMaxSize == 128

\* Cache keys are (saved_model_dir, saved_model_tags, saved_model_signature_key).
Tracked == <<0, 0, 0>>
\* The n-th other key differs from the tracked one in one component.
FreshKey(n) ==
    IF n % 3 = 1 THEN <<n, 0, 0>> ELSE IF n % 3 = 2 THEN <<0, n, 0>> ELSE <<0, 0, n>>

Cached(cache, key) == \E i \in 1..Len(cache) : cache[i] = key

\* A hit makes the entry the most recently used one.
CacheHit(cache, key) == SelectSeq(cache, LAMBDA k : k # key) \o <<key>>

\* A miss that loaded stores the result, evicting the least recently used
\* entry of a full cache.
EarlyEvict_CacheStore(cache, key) ==
    IF Len(cache) + 1 >= LruMaxSize THEN Append(Tail(cache), key) ELSE Append(cache, key)

CacheStore(cache, key) ==
    IF Len(cache) >= LruMaxSize THEN Append(Tail(cache), key) ELSE Append(cache, key)

\* One call load_meta_graph(key); storageOk tells whether the saved model
\* loads when storage is read.
LoadMetaGraph(key, storageOk) ==
    LET hit == Cached(lru, key)
        used == hit \/ storageOk
    IN /\ lru' = IF hit THEN CacheHit(lru, key)
                 ELSE IF storageOk THEN CacheStore(lru, key) ELSE lru
       /\ loaded' = IF used THEN loaded \cup {key} ELSE loaded
       /\ lastLoad' = [kind |-> "call", key |-> key,
                       wasLoaded |-> key \in loaded,
                       read |-> ~hit,
                       ok |-> used,
                       others |-> IF key = Tracked /\ lastUse # None
                                  THEN nextFresh - lastUse[1] ELSE 0]
       /\ nextFresh' = IF key # Tracked /\ used THEN nextFresh + 1 ELSE nextFresh
       /\ lastUse' = IF key = Tracked /\ used THEN Some(nextFresh) ELSE lastUse

LoadTracked == \E storageOk \in BOOLEAN : LoadMetaGraph(Tracked, storageOk)

LoadFresh ==
    /\ nextFresh <= MaxFresh
    /\ \E storageOk \in BOOLEAN : LoadMetaGraph(FreshKey(nextFresh), storageOk)

NextCache ==
    \/ LoadTracked /\ UNCHANGED shapeVars /\ UNCHANGED handlerVars
    \/ LoadFresh /\ UNCHANGED shapeVars /\ UNCHANGED handlerVars

InitHandlerIdle ==
    /\ meta = [inputs |-> <<>>, nout |-> 0]
    /\ self = NoHandler
    /\ pc = "idle"
    /\ run = IdleRun
    /\ sessOpen = FALSE
    /\ callLog = <<>>
    /\ genSessions = 0
    /\ ret = NoResult
    /\ saveLog = <<>>
    /\ nextTmp = 0

Init ==
    /\ InitShape
    /\ InitHandlerIdle
    /\ InitCache

Next ==
    ResolveShape /\ UNCHANGED handlerVars /\ UNCHANGED cacheVars

Spec == Init /\ [][Next]_vars

InitCacheOnly ==
    /\ InitCache
    /\ InitHandlerIdle
    /\ tensor_shape = UnknownRank /\ batch_size = None /\ shape_result = NotCalled

SpecCache == InitCacheOnly /\ [][NextCache]_vars

C1_ShapeResolution ==
    shape_result # NotCalled =>
        LET d == tensor_shape.dim
            fails == \/ tensor_shape.unknown_rank
                     \/ d = <<>>
                     \/ \E i \in 2..Len(d) : d[i] < 0
                     \/ d[1] < 0 /\ (batch_size = None \/ batch_size[1] <= 0)
        IN IF fails
           THEN shape_result.kind = "raise"
           ELSE /\ shape_result.kind = "return"
                /\ shape_result.value =
                       [i \in 1..Len(d) |-> IF i = 1 /\ d[1] < 0 THEN batch_size[1] ELSE d[i]]
                /\ (\A i \in 1..Len(d) : d[i] >= 0) => shape_result.value = d

C1_Witness ==
    /\ shape_result.kind = "return"
    /\ Len(tensor_shape.dim) = 3
    /\ tensor_shape.dim[1] < 0
    /\ shape_result.value = <<batch_size[1], tensor_shape.dim[2], tensor_shape.dim[3]>>

====
